---- MODULE Spec2Model ----
(***************************************************************************)
(* The dispatcher loop of workers/python/worker.py: the registry of job    *)
(* handles, the reap phase (complete_jobs), the reconciliation sweep, the  *)
(* notify path and the poll path, together with the child processes, the   *)
(* notification channel and the job store the loop talks to.               *)
(*                                                                         *)
(* The SQL functions of the store (reserve_job, reserve_jobs_from_queues,  *)
(* release_lost_jobs, finish_job, fail_job) are not among the source       *)
(* files; they are modelled from the contract table of spec.md, section 6. *)
(***************************************************************************)
EXTENDS Integers, Sequences, FiniteSets, TLC

\* ------------------------------------------------------------ bounds
NumJobs == 3            \* job records in the store
procs == 1              \* --processes of the agent
MaxNotifies == 1        \* notifications buffered on the LISTEN socket
JobTimeout == 1         \* job.timeout of every job record
JobTries == 2           \* job.tries of every job record
TickFold == 11          \* tick numbers above this are folded back by SweepEvery
LifeTicks == 4          \* ticks of one instance where two agents run together

\* ------------------------------------------------------------ program constants
SweepEvery == 10        \* it % 10 == 1
TermGrace == 3          \* time.sleep(3) after terminate()
KillGrace == 1          \* time.sleep(1) after kill()
SelectWait == 1         \* select.select([conn], [], [], 1)

Agents == {"a1", "a2"}
JobIds == 1..NumJobs

\* --queues of every agent; job 1 lives in a queue no agent consumes
queues == {"default"}
queueOf(j) == IF j = 1 THEN "other" ELSE "default"

None == "None"

\* --processes of an agent: "a1" runs with the bound, any other agent with one
\* process more
procsOf(a) == IF a = "a1" THEN procs ELSE procs + 1

VARIABLES
  \* ---- the store (one row per job id)
  status,      \* "ready" (claimable) | "claimed" | "done" | "failed"
  owner,       \* worker_id that holds the claim, or None
  tries,       \* remaining tries
  \* ---- one dispatcher process per agent
  worker_id,   \* --worker_id
  pc,          \* position of the dispatcher in main()
  it,          \* the loop counter
  jobs,        \* the registry: insertion-ordered dict job_id -> Job
  todo,        \* rest of list(jobs.items()) in complete_jobs
  cur,         \* the handle complete_jobs has popped and is terminating
  stray,       \* job ids whose child process outlived its handle
  chan,        \* notifications on the LISTEN socket, not yet polled
  notifies,    \* conn.notifies
  \* ---- observations of what the dispatcher did (history)
  removed,     \* per job id: registry removals in the current claim episode
  reports,     \* per job id: finish_job/fail_job calls in the current episode
  lastReport,  \* the last finish_job/fail_job call of this tick
  lastPoll,    \* the last idle tick's bulk-claim decision
  lastNotify,  \* the last notification processed
  swept,       \* whether this tick ran release_lost_jobs
  released,    \* the rows release_lost_jobs returned in this tick
  unsubmitted, \* jobs claimed under this identity when the instance started
               \* that no release_lost_jobs call has released yet
  trail        \* what complete_jobs did in the current reap phase

storeVars == <<status, owner, tries>>
agentVars == <<worker_id, pc, it, jobs, todo, cur, stray, chan, notifies>>
histVars == <<removed, reports, lastReport, lastPoll, lastNotify, swept, released,
              unsubmitted, trail>>
vars == <<status, owner, tries, worker_id, pc, it, jobs, todo, cur, stray, chan,
          notifies, removed, reports, lastReport, lastPoll, lastNotify, swept,
          released, unsubmitted, trail>>

\* ------------------------------------------------------------ helpers
Min(x, y) == IF x < y THEN x ELSE y

Range(s) == {s[i] : i \in 1..Len(s)}

RECURSIVE SetToSeq(_)
\* the rows of a result set, in ascending id order
SetToSeq(S) ==
  IF S = {} THEN <<>>
  ELSE LET m == CHOOSE x \in S : \A y \in S : x <= y
       IN <<m>> \o SetToSeq(S \ {m})

\* keys of the registry, in insertion order
Keys(reg) == [i \in 1..Len(reg) |-> reg[i].id]
KeySet(reg) == {reg[i].id : i \in 1..Len(reg)}

\* jobs[job_id]
Lookup(reg, j) == reg[CHOOSE i \in 1..Len(reg) : reg[i].id = j]

\* a removal that leaves the entry in the registry
PopNothing(reg, j) == reg

\* jobs.pop(job_id)
Pop(reg, j) == SelectSeq(reg, LAMBDA h : h.id # j)

\* jobs[job_id] = h  (a new key is appended, an existing key keeps its place)
Put(reg, h) ==
  IF h.id \in KeySet(reg)
  THEN [i \in 1..Len(reg) |-> IF reg[i].id = h.id THEN h ELSE reg[i]]
  ELSE Append(reg, h)

\* ------------------------------------------------------------ class Job
NOT_DONE == <<>>

\* Job.__init__: a pipe, a started child process, no result read yet.
\* elapsed is utcnow() - row["started_at"], kept as a saturating counter.
Job(row) == [id |-> row, elapsed |-> 0, pipe |-> <<>>, exitcode |-> None,
             result |-> NOT_DONE]

NoHandle == [id |-> 0, elapsed |-> 0, pipe |-> <<>>, exitcode |-> None,
             result |-> NOT_DONE]

\* what the function named by payload["func"] does when the child calls it
Behaviours == {"returns", "raises", "unresolved"}

\* Job.run: the one message the child sends on its pipe; a function that
\* raises and a reference that does not resolve both end in the except
\* branch, whose message carries the formatted traceback
run(behaviour) ==
  IF behaviour = "returns"
  THEN [result |-> "Passed", exc |-> None]
  ELSE [result |-> None,
        exc |-> "Traceback"]

\* Job.ready
ready(h) == h.exitcode # None

\* Job.is_alive
is_alive(h) == h.exitcode = None

\* a deadline that never passes
timed_out_never(h) == FALSE

\* Job.timed_out
timed_out(h) == h.elapsed > JobTimeout

\* Job.result: whether self._pipe.recv() has something to return; on an empty
\* pipe whose write end is closed it raises EOFError
CanRecv(h) == h.result # NOT_DONE \/ h.pipe # <<>>

\* Job.result
result(h) == IF h.result = NOT_DONE THEN Head(h.pipe) ELSE Head(h.result)

\* time passing for every handle of a registry
Advance(reg, d) ==
  [i \in 1..Len(reg) |-> [reg[i] EXCEPT !.elapsed = Min(@ + d, JobTimeout + 1)]]

\* ------------------------------------------------------------ the store
claimable(j) == status[j] = "ready"

\* reserve_job / reserve_jobs_from_queues: the rows S become claimed by w
Reserve(S, w) ==
  /\ status' = [j \in JobIds |-> IF j \in S THEN "claimed" ELSE status[j]]
  /\ owner' = [j \in JobIds |-> IF j \in S THEN w ELSE owner[j]]
  /\ UNCHANGED tries

\* what reserve_jobs_from_queues(qs, w, n) may return: at most n claimable
\* jobs of the queues, and at least one when there is one
BulkChoices(qs, n) ==
  LET avail == {j \in JobIds : claimable(j) /\ queueOf(j) \in qs}
  IN {S \in SUBSET avail : Cardinality(S) <= n /\ (avail # {} => S # {})}

\* finish_job
FinishJob(j) ==
  /\ status' = [status EXCEPT ![j] = "done"]
  /\ owner' = [owner EXCEPT ![j] = None]
  /\ UNCHANGED tries

\* fail_job: reschedule while tries remain
FailJob(j) ==
  /\ status' = [status EXCEPT ![j] = IF tries[j] > 1 THEN "ready" ELSE "failed"]
  /\ owner' = [owner EXCEPT ![j] = None]
  /\ tries' = [tries EXCEPT ![j] = IF @ > 0 THEN @ - 1 ELSE 0]

\* release_lost_jobs(w, qs, known): the rows it releases
LostJobs(w, qs, known) ==
  {j \in JobIds : status[j] = "claimed" /\ owner[j] = w
                  /\ queueOf(j) \in qs /\ j \notin known}

ReleaseLost(L) ==
  /\ status' = [j \in JobIds |-> IF j \in L THEN "ready" ELSE status[j]]
  /\ owner' = [j \in JobIds |-> IF j \in L THEN None ELSE owner[j]]
  /\ UNCHANGED tries

\* ------------------------------------------------------------ history records
NoReport == [id |-> 0, func |-> None, result |-> None, exc |-> None,
             exitcode |-> None, wasReady |-> FALSE, wasTimedOut |-> FALSE,
             msg |-> <<>>, childExit |-> None, recvs |-> 0]
NoPoll == [idle |-> FALSE, size |-> 0, requested |-> FALSE, n |-> 0, got |-> 0,
           known |-> {}, spawned |-> {}]
NoNotify == [id |-> 0, size |-> 0, inReg |-> FALSE, attempted |-> FALSE,
             row |-> FALSE, before |-> <<>>, after |-> <<>>, nth |-> 0]

Zero == [j \in JobIds |-> 0]

\* the reap phase has done nothing yet: id is the handle handled last, events
\* the steps taken for it, slept the time spent in time.sleep, seen the ids
\* found timed out and not ready
NoTrail == [id |-> 0, events |-> <<>>, slept |-> 0, seen |-> {}]

Running(a) == pc[a] \notin {"off", "killed", "raised"}

\* ------------------------------------------------------------ Init
\* no agent process started yet; the store holds claimable jobs
InitRest ==
  /\ status = [j \in JobIds |-> "ready"]
  /\ owner = [j \in JobIds |-> None]
  /\ tries = [j \in JobIds |-> JobTries]
  /\ pc = [a \in Agents |-> "off"]
  /\ it = [a \in Agents |-> 0]
  /\ jobs = [a \in Agents |-> <<>>]
  /\ todo = [a \in Agents |-> <<>>]
  /\ cur = [a \in Agents |-> NoHandle]
  /\ stray = [a \in Agents |-> {}]
  /\ chan = [a \in Agents |-> <<>>]
  /\ notifies = [a \in Agents |-> <<>>]
  /\ removed = [a \in Agents |-> Zero]
  /\ reports = [a \in Agents |-> Zero]
  /\ lastReport = [a \in Agents |-> NoReport]
  /\ lastPoll = [a \in Agents |-> NoPoll]
  /\ lastNotify = [a \in Agents |-> NoNotify]
  /\ swept = [a \in Agents |-> FALSE]
  /\ released = [a \in Agents |-> {}]
  /\ unsubmitted = [a \in Agents |-> {}]
  /\ trail = [a \in Agents |-> NoTrail]

\* every agent is given its own --worker_id
Init ==
  /\ worker_id = [a \in Agents |-> IF a = "a1" THEN "w1" ELSE "w2"]
  /\ InitRest

\* the agents run on one host with the default --worker_id, the host name
SharedInit ==
  /\ worker_id = [a \in Agents |-> "w1"]
  /\ InitRest

\* ------------------------------------------------------------ process start and stop
\* main() up to the loop: an empty registry, a fresh LISTEN connection, it = 0
Start(a) ==
  /\ ~Running(a)
  /\ pc' = [pc EXCEPT ![a] = "tick"]
  /\ it' = [it EXCEPT ![a] = 0]
  /\ jobs' = [jobs EXCEPT ![a] = <<>>]
  /\ todo' = [todo EXCEPT ![a] = <<>>]
  /\ cur' = [cur EXCEPT ![a] = NoHandle]
  /\ stray' = [stray EXCEPT ![a] = {}]
  /\ chan' = [chan EXCEPT ![a] = <<>>]
  /\ notifies' = [notifies EXCEPT ![a] = <<>>]
  /\ removed' = [removed EXCEPT ![a] = Zero]
  /\ reports' = [reports EXCEPT ![a] = Zero]
  /\ lastReport' = [lastReport EXCEPT ![a] = NoReport]
  /\ lastPoll' = [lastPoll EXCEPT ![a] = NoPoll]
  /\ lastNotify' = [lastNotify EXCEPT ![a] = NoNotify]
  /\ swept' = [swept EXCEPT ![a] = FALSE]
  /\ released' = [released EXCEPT ![a] = {}]
  /\ unsubmitted' = [unsubmitted EXCEPT ![a] = LostJobs(worker_id[a], queues, {})]
  /\ trail' = [trail EXCEPT ![a] = NoTrail]
  /\ UNCHANGED <<storeVars, worker_id>>

\* the dispatcher process ends (how = "killed": from outside; "raised": by an
\* uncaught exception); its memory, its connection and its daemonic children go
Halt(a, how) ==
  /\ pc' = [pc EXCEPT ![a] = how]
  /\ jobs' = [jobs EXCEPT ![a] = <<>>]
  /\ todo' = [todo EXCEPT ![a] = <<>>]
  /\ cur' = [cur EXCEPT ![a] = NoHandle]
  /\ stray' = [stray EXCEPT ![a] = {}]
  /\ chan' = [chan EXCEPT ![a] = <<>>]
  /\ notifies' = [notifies EXCEPT ![a] = <<>>]
  /\ UNCHANGED <<worker_id, it>>

\* the process is terminated externally (no graceful shutdown exists)
Kill(a) ==
  /\ Running(a)
  /\ Halt(a, "killed")
  /\ UNCHANGED <<storeVars, histVars>>

\* ------------------------------------------------------------ main(): top of the loop
\* it += 1 (tick numbers above TickFold are folded back by one sweep period)
NextIt(t) == IF t >= TickFold THEN t - SweepEvery + 1 ELSE t + 1

\* a sweep cadence that starts on tick 10 instead of tick 1
SweepDueLate(t) == t % SweepEvery = 0

\* if it % 10 == 1
SweepDue(t) == t % SweepEvery = 1

\* a sweep that tells the store of no id to leave alone
SweepKnownNone(a) == {}

\* list(jobs), the ids release_lost_jobs is told to leave alone
SweepKnown(a) == KeySet(jobs[a])

\* a sweep under one identity wired into the program
SweepOwnerFixed(a) == "w1"

\* the identity release_lost_jobs is called with
SweepOwner(a) == worker_id[a]

\* it += 1, the reconciliation sweep when due, and the snapshot
\* list(jobs.items()) complete_jobs iterates over
TickStart(a) ==
  /\ pc[a] = "tick"
  /\ LET t == NextIt(it[a])
         L == LostJobs(SweepOwner(a), queues, SweepKnown(a))
     IN /\ it' = [it EXCEPT ![a] = t]
        /\ IF SweepDue(t)
           THEN /\ ReleaseLost(L)
                /\ swept' = [swept EXCEPT ![a] = TRUE]
                /\ released' = [released EXCEPT ![a] = L]
                /\ unsubmitted' = [unsubmitted EXCEPT ![a] = @ \ L]
           ELSE /\ UNCHANGED storeVars
                /\ swept' = [swept EXCEPT ![a] = FALSE]
                /\ released' = [released EXCEPT ![a] = {}]
                /\ UNCHANGED unsubmitted
  /\ todo' = [todo EXCEPT ![a] = Keys(jobs[a])]
  /\ pc' = [pc EXCEPT ![a] = "reap"]
  /\ lastPoll' = [lastPoll EXCEPT ![a] = NoPoll]
  /\ lastNotify' = [lastNotify EXCEPT ![a] = NoNotify]
  /\ UNCHANGED <<worker_id, jobs, cur, stray, chan, notifies, removed, reports,
                 lastReport, trail>>

\* ------------------------------------------------------------ complete_jobs
Inc(f, a, j) == [f EXCEPT ![a][j] = Min(@ + 1, 2)]

\* an exit code taken from the child whatever the message says
ExitCodeOfChild(h, res) == h.exitcode

\* result["exitcode"] = job.exitcode if not result["exc"] else 1
ExitCodeOf(h, res) == IF res.exc = None THEN h.exitcode ELSE "1"

\* func = "fail_job" if result["exc"] else "finish_job"
ReportFunc(res) == IF res.exc # None THEN "fail_job" ELSE "finish_job"

\* a timeout result that carries no error description
TimeoutResultNoExc(h) == [result |-> None, exc |-> None, exitcode |-> h.exitcode]

\* result = {"result": None, "exc": "timed out", "exitcode": job.exitcode}
TimeoutResult(h) == [result |-> None, exc |-> "timed out", exitcode |-> h.exitcode]

\* db.fetchone(f"select * from {func}(%s, %s)", ...) and then db.commit()
ReportStmts(func) == <<func, "commit">>

\* the same two statements when one of them raises: the report itself
\* (at = "report") or the commit after it (at = "commit")
FailedStmts(func, at) ==
  IF at = "report" THEN <<func, "raise">> ELSE <<func, "commit", "raise">>

\* an exception of the store that is caught and dropped
SurfacedNever(at) == FALSE

\* no try encloses db.fetchone and db.commit in complete_jobs or in main: an
\* exception raised by either leaves both functions
Surfaced(at) == TRUE

\* a kill issued whatever job.is_alive() says
KillNeededAlways(h) == TRUE

\* if job.is_alive(): after the grace window
KillNeeded(h) == is_alive(h)

\* what job.is_alive() returns for the handle
Observed(h) == IF is_alive(h) THEN "alive" ELSE "dead"

\* which branch of complete_jobs a handle takes
ReapBranch(h) ==
  IF ready(h) THEN "ready" ELSE IF timed_out(h) THEN "timed_out" ELSE "skip"

\* the handle the loop is looking at
Examined(a) == Lookup(jobs[a], Head(todo[a]))

\* if job.ready: pop, read the result, report it, commit
ReapReady(a) ==
  /\ pc[a] = "reap" /\ todo[a] # <<>>
  /\ ReapBranch(Examined(a)) = "ready"
  /\ CanRecv(Examined(a))
  /\ LET h == Examined(a)
         j == h.id
         res == result(h)
         code == ExitCodeOf(h, res)
         func == ReportFunc(res)
     IN /\ jobs' = [jobs EXCEPT ![a] = Pop(@, j)]
        /\ removed' = Inc(removed, a, j)
        /\ IF func = "fail_job" THEN FailJob(j) ELSE FinishJob(j)
        /\ reports' = Inc(reports, a, j)
        /\ lastReport' = [lastReport EXCEPT ![a] =
             [id |-> j, func |-> func, result |-> res.result, exc |-> res.exc,
              exitcode |-> code, wasReady |-> ready(h), wasTimedOut |-> timed_out(h),
              msg |-> h.pipe, childExit |-> h.exitcode,
              recvs |-> IF h.result = NOT_DONE THEN 1 ELSE 0]]
        /\ trail' = [trail EXCEPT ![a].id = j,
                                  ![a].events = <<"pop", "recv">> \o ReportStmts(func)]
  /\ todo' = [todo EXCEPT ![a] = Tail(@)]
  /\ UNCHANGED <<worker_id, pc, it, cur, stray, chan, notifies, lastPoll,
                 lastNotify, swept, released, unsubmitted>>

\* if job.ready: pop, read the result, then fetchone or commit raises: nothing
\* becomes durable and the exception leaves complete_jobs and main
ReapReadyDbError(a, at) ==
  /\ pc[a] = "reap" /\ todo[a] # <<>>
  /\ ReapBranch(Examined(a)) = "ready"
  /\ CanRecv(Examined(a))
  /\ LET h == Examined(a)
         func == ReportFunc(result(h))
     IN /\ removed' = Inc(removed, a, h.id)
        /\ trail' = [trail EXCEPT ![a].id = h.id,
                                  ![a].events = <<"pop", "recv">> \o FailedStmts(func, at)]
        /\ IF Surfaced(at)
           THEN Halt(a, "raised")
           ELSE /\ jobs' = [jobs EXCEPT ![a] = Pop(@, h.id)]
                /\ todo' = [todo EXCEPT ![a] = Tail(@)]
                /\ UNCHANGED <<worker_id, pc, it, cur, stray, chan, notifies>>
  /\ UNCHANGED <<storeVars, reports, lastReport, lastPoll, lastNotify, swept,
                 released, unsubmitted>>

\* if job.ready: pop, then self._pipe.recv() finds the pipe empty and closed:
\* EOFError leaves complete_jobs and main
ReapReadyNoResult(a) ==
  /\ pc[a] = "reap" /\ todo[a] # <<>>
  /\ ReapBranch(Examined(a)) = "ready"
  /\ ~CanRecv(Examined(a))
  /\ removed' = Inc(removed, a, Head(todo[a]))
  /\ trail' = [trail EXCEPT ![a].id = Head(todo[a]),
                            ![a].events = <<"pop", "recv", "raise">>]
  /\ Halt(a, "raised")
  /\ UNCHANGED <<storeVars, reports, lastReport, lastPoll, lastNotify, swept,
                 released, unsubmitted>>

\* elif job.timed_out: pop, job.terminate(), then time.sleep(3)
ReapTimedOut(a) ==
  /\ pc[a] = "reap" /\ todo[a] # <<>>
  /\ ReapBranch(Examined(a)) = "timed_out"
  /\ LET h == Examined(a)
     IN /\ jobs' = [jobs EXCEPT ![a] = Pop(@, h.id)]
        /\ removed' = Inc(removed, a, h.id)
        /\ cur' = [cur EXCEPT ![a] = h]
        /\ trail' = [trail EXCEPT ![a].id = h.id,
                                  ![a].events = <<"pop", "terminate">>,
                                  ![a].seen = @ \cup {h.id}]
  /\ pc' = [pc EXCEPT ![a] = "term_sleep"]
  /\ UNCHANGED <<storeVars, worker_id, it, todo, stray, chan, notifies, reports,
                 lastReport, lastPoll, lastNotify, swept, released, unsubmitted>>

\* the rest of the timed-out branch: the result, job.close() (ValueError while
\* the process is still running: printed, and the process stays behind),
\* fail_job, commit; reg is the registry after the sleep of d time units, ev
\* what the branch did since its last step
TimeoutReport(a, reg, ev, d) ==
  LET h == cur[a]
      res == TimeoutResult(h)
  IN /\ jobs' = [jobs EXCEPT ![a] = reg]
     /\ trail' = [trail EXCEPT
          ![a].events = @ \o ev \o <<"close">> \o ReportStmts("fail_job"),
          ![a].slept = @ + d]
     /\ stray' = [stray EXCEPT ![a] = IF is_alive(h) THEN @ \cup {h.id} ELSE @]
     /\ FailJob(h.id)
     /\ reports' = Inc(reports, a, h.id)
     /\ lastReport' = [lastReport EXCEPT ![a] =
          [id |-> h.id, func |-> "fail_job", result |-> res.result, exc |-> res.exc,
           exitcode |-> res.exitcode, wasReady |-> FALSE, wasTimedOut |-> timed_out(h),
           msg |-> h.pipe, childExit |-> h.exitcode, recvs |-> 0]]
     /\ cur' = [cur EXCEPT ![a] = NoHandle]
     /\ todo' = [todo EXCEPT ![a] = Tail(@)]
     /\ pc' = [pc EXCEPT ![a] = "reap"]

\* time.sleep(3) is over and job.is_alive(): job.kill(), then time.sleep(1)
TermSleepAlive(a) ==
  /\ pc[a] = "term_sleep"
  /\ KillNeeded(cur[a])
  /\ jobs' = [jobs EXCEPT ![a] = Advance(@, TermGrace)]
  /\ trail' = [trail EXCEPT
       ![a].events = @ \o <<"sleep3", Observed(cur[a]), "kill">>,
       ![a].slept = @ + TermGrace]
  /\ pc' = [pc EXCEPT ![a] = "kill_sleep"]
  /\ UNCHANGED <<storeVars, worker_id, it, todo, cur, stray, chan, notifies, removed,
                 reports, lastReport, lastPoll, lastNotify, swept, released,
                 unsubmitted>>

\* time.sleep(3) is over and the process is dead: no kill, no second sleep
TermSleepDead(a) ==
  /\ pc[a] = "term_sleep"
  /\ ~KillNeeded(cur[a])
  /\ TimeoutReport(a, Advance(jobs[a], TermGrace), <<"sleep3", Observed(cur[a])>>,
                   TermGrace)
  /\ UNCHANGED <<worker_id, it, chan, notifies, removed, lastPoll, lastNotify,
                 swept, released, unsubmitted>>

\* time.sleep(1) after the kill is over
KillSleepDone(a) ==
  /\ pc[a] = "kill_sleep"
  /\ TimeoutReport(a, Advance(jobs[a], KillGrace), <<"sleep1">>, KillGrace)
  /\ UNCHANGED <<worker_id, it, chan, notifies, removed, lastPoll, lastNotify,
                 swept, released, unsubmitted>>

\* the timed-out branch up to fail_job, where fetchone or commit raises
TimeoutDbError(a, at) ==
  /\ \/ pc[a] = "term_sleep" /\ ~KillNeeded(cur[a])
     \/ pc[a] = "kill_sleep"
  /\ trail' = [trail EXCEPT
       ![a].events = @ \o (IF pc[a] = "term_sleep" THEN <<"sleep3", Observed(cur[a])>>
                                                   ELSE <<"sleep1">>)
                       \o <<"close">> \o FailedStmts("fail_job", at),
       ![a].slept = @ + (IF pc[a] = "term_sleep" THEN TermGrace ELSE KillGrace)]
  /\ IF Surfaced(at)
     THEN Halt(a, "raised")
     ELSE /\ cur' = [cur EXCEPT ![a] = NoHandle]
          /\ todo' = [todo EXCEPT ![a] = Tail(@)]
          /\ pc' = [pc EXCEPT ![a] = "reap"]
          /\ UNCHANGED <<worker_id, it, jobs, stray, chan, notifies>>
  /\ UNCHANGED <<storeVars, removed, reports, lastReport, lastPoll, lastNotify, swept,
                 released, unsubmitted>>

\* neither ready nor timed out: the handle stays
ReapSkip(a) ==
  /\ pc[a] = "reap" /\ todo[a] # <<>>
  /\ ReapBranch(Examined(a)) = "skip"
  /\ todo' = [todo EXCEPT ![a] = Tail(@)]
  /\ UNCHANGED <<storeVars, worker_id, pc, it, jobs, cur, stray, chan, notifies, histVars>>

\* complete_jobs returns (the observations of the reap phase end with it)
ReapEnd(a) ==
  /\ pc[a] = "reap" /\ todo[a] = <<>>
  /\ pc' = [pc EXCEPT ![a] = "select"]
  /\ removed' = [removed EXCEPT ![a] = Zero]
  /\ reports' = [reports EXCEPT ![a] = Zero]
  /\ lastReport' = [lastReport EXCEPT ![a] = NoReport]
  /\ trail' = [trail EXCEPT ![a] = NoTrail]
  /\ UNCHANGED <<storeVars, worker_id, it, jobs, todo, cur, stray, chan, notifies,
                 lastPoll, lastNotify, swept, released, unsubmitted>>

\* ------------------------------------------------------------ main(): discovery
RECURSIVE SpawnAll(_, _)
\* for row in rows: jobs[row["id"]] = Job(row)
SpawnAll(reg, rows) ==
  IF rows = <<>> THEN reg ELSE SpawnAll(Put(reg, Job(Head(rows))), Tail(rows))

\* a new claim episode begins for the ids of S
NewEpisodes(f, a, S) == [f EXCEPT ![a] = [j \in JobIds |-> IF j \in S THEN 0 ELSE @[j]]]

\* a bulk claim that asks for the whole limit, whatever is registered
BulkNWholeLimit(a, reg) == procsOf(a)

\* the subtraction the wrong way round: never positive
BulkNReversed(a, reg) == Len(reg) - procsOf(a)

\* n = procs - len(jobs)
BulkN(a, reg) == procsOf(a) - Len(reg)

\* a loop over the rows without the assert
DuplicateRowIgnored(reg, S) == FALSE

\* assert not row["id"] in jobs, row: whether it fails for one of the rows
DuplicateRow(reg, S) == S \cap KeySet(reg) # {}

\* the rows spawned before the assert fails (rows come in ascending id order)
SpawnedBefore(reg, S) ==
  {j \in S : \A k \in S \cap KeySet(reg) : j < k}

\* select timed out with no event: the poll path.  One bulk claim for n jobs
\* when n > 0; a returned id already in the registry fails the assert before
\* the commit
SelectTimeout(a) ==
  /\ pc[a] = "select"
  /\ chan[a] = <<>>
  /\ LET reg == Advance(jobs[a], SelectWait)
         n == BulkN(a, reg)
     IN IF n > 0
        THEN \E S \in BulkChoices(queues, n) :
               IF DuplicateRow(reg, S)
               THEN /\ Halt(a, "raised")
                    /\ UNCHANGED <<storeVars, removed, reports>>
                    /\ lastPoll' = [lastPoll EXCEPT ![a] =
                         [idle |-> TRUE, size |-> Len(reg), requested |-> TRUE,
                          n |-> n, got |-> Cardinality(S),
                          known |-> S \cap KeySet(reg),
                          spawned |-> SpawnedBefore(reg, S)]]
               ELSE /\ Reserve(S, worker_id[a])
                    /\ jobs' = [jobs EXCEPT ![a] = SpawnAll(reg, SetToSeq(S))]
                    /\ removed' = NewEpisodes(removed, a, S)
                    /\ reports' = NewEpisodes(reports, a, S)
                    /\ lastPoll' = [lastPoll EXCEPT ![a] =
                         [idle |-> TRUE, size |-> Len(reg), requested |-> TRUE,
                          n |-> n, got |-> Cardinality(S),
                          known |-> S \cap KeySet(reg), spawned |-> S]]
                    /\ pc' = [pc EXCEPT ![a] = "tick"]
                    /\ UNCHANGED <<worker_id, it, todo, cur, stray, chan, notifies>>
        ELSE /\ jobs' = [jobs EXCEPT ![a] = reg]
             /\ lastPoll' = [lastPoll EXCEPT ![a] =
                  [idle |-> TRUE, size |-> Len(reg), requested |-> FALSE,
                   n |-> 0, got |-> 0, known |-> {}, spawned |-> {}]]
             /\ pc' = [pc EXCEPT ![a] = "tick"]
             /\ UNCHANGED <<storeVars, worker_id, it, todo, cur, stray, chan,
                            notifies, removed, reports>>
  /\ UNCHANGED <<lastReport, lastNotify, swept, released, unsubmitted, trail>>

\* select returns the connection after d time units: conn.poll() moves what
\* is on the socket to conn.notifies
SelectEvent(a, d) ==
  /\ pc[a] = "select"
  /\ chan[a] # <<>>
  /\ jobs' = [jobs EXCEPT ![a] = Advance(@, d)]
  /\ notifies' = [notifies EXCEPT ![a] = @ \o chan[a]]
  /\ chan' = [chan EXCEPT ![a] = <<>>]
  /\ pc' = [pc EXCEPT ![a] = "drain"]
  /\ UNCHANGED <<storeVars, worker_id, it, todo, cur, stray, histVars>>

\* the guard without its capacity test
NotifyGuardNoCap(a, j) ==
  /\ queueOf(j) \in queues
  /\ j \notin KeySet(jobs[a])

\* the guard without its queue filter
NotifyGuardNoQueue(a, j) ==
  /\ j \notin KeySet(jobs[a])
  /\ Len(jobs[a]) < procsOf(a)

\* if queue in queues and job_id not in jobs and len(jobs) < procs
NotifyGuard(a, j) ==
  /\ queueOf(j) \in queues
  /\ j \notin KeySet(jobs[a])
  /\ Len(jobs[a]) < procsOf(a)

\* a drain that takes one notification and leaves the rest
DrainDoneAtOnce(q) == TRUE

\* while conn.notifies: the loop ends when the deque is empty
DrainDone(q) == q = <<>>

\* one turn of "while conn.notifies": popleft, the guard, reserve_job, and
\* when a row came back, Job(row) and commit
DrainOne(a) ==
  /\ pc[a] = "drain"
  /\ notifies[a] # <<>>
  /\ LET j == Head(notifies[a])
         attempt == NotifyGuard(a, j)
         row == attempt /\ claimable(j)
     IN /\ IF row
           THEN /\ Reserve({j}, worker_id[a])
                /\ jobs' = [jobs EXCEPT ![a] = Put(@, Job(j))]
                /\ removed' = NewEpisodes(removed, a, {j})
                /\ reports' = NewEpisodes(reports, a, {j})
           ELSE UNCHANGED <<storeVars, jobs, removed, reports>>
        /\ lastNotify' = [lastNotify EXCEPT ![a] =
             [id |-> j, size |-> Len(jobs[a]), inReg |-> j \in KeySet(jobs[a]),
              attempted |-> attempt, row |-> row,
              before |-> Keys(jobs[a]), after |-> Keys(jobs'[a]),
              nth |-> lastNotify[a].nth + 1]]
  /\ notifies' = [notifies EXCEPT ![a] = Tail(@)]
  /\ pc' = [pc EXCEPT ![a] = IF DrainDone(Tail(notifies[a])) THEN "tick" ELSE "drain"]
  /\ UNCHANGED <<worker_id, it, todo, cur, stray, chan, lastReport, lastPoll,
                 swept, released, unsubmitted, trail>>

\* ------------------------------------------------------------ the children
\* the child of a registered handle runs Job.run to its end: it sends the one
\* message and exits with code 0
ChildReturns(a, j, behaviour) ==
  /\ j \in KeySet(jobs[a])
  /\ is_alive(Lookup(jobs[a], j))
  /\ jobs' = [jobs EXCEPT ![a] =
       Put(@, [Lookup(@, j) EXCEPT !.pipe = <<run(behaviour)>>, !.exitcode = "0"])]
  /\ UNCHANGED <<storeVars, worker_id, pc, it, todo, cur, stray, chan, notifies, histVars>>

\* the child ends in another way, before its send (sent = FALSE) or after it:
\* SystemExit or KeyboardInterrupt in the function (run catches Exception
\* only), a result that cannot be pickled, a signal from outside
ChildDies(a, j, sent) ==
  /\ j \in KeySet(jobs[a])
  /\ is_alive(Lookup(jobs[a], j))
  /\ jobs' = [jobs EXCEPT ![a] =
       Put(@, [Lookup(@, j) EXCEPT !.pipe = IF sent THEN <<run("returns")>> ELSE <<>>,
                                   !.exitcode = "1"])]
  /\ UNCHANGED <<storeVars, worker_id, pc, it, todo, cur, stray, chan, notifies, histVars>>

\* the child of the handle being terminated ends during a sleep: by itself or
\* by SIGTERM while pc = "term_sleep", also by SIGKILL while pc = "kill_sleep"
CurChildEnds(a, code) ==
  /\ pc[a] \in {"term_sleep", "kill_sleep"}
  /\ is_alive(cur[a])
  /\ code = "-9" => pc[a] = "kill_sleep"
  /\ cur' = [cur EXCEPT ![a].exitcode = code]
  /\ UNCHANGED <<storeVars, worker_id, pc, it, jobs, todo, stray, chan, notifies, histVars>>

\* a process left behind by job.close() ends at last
StrayEnds(a, j) ==
  /\ j \in stray[a]
  /\ stray' = [stray EXCEPT ![a] = @ \ {j}]
  /\ UNCHANGED <<storeVars, worker_id, pc, it, jobs, todo, cur, chan, notifies, histVars>>

\* ------------------------------------------------------------ the channel
\* a NOTIFY job, '<queue> <job_id>' reaches the agent's LISTEN connection;
\* for any job id and at any time (notifications are lost and duplicated)
NotifyUpTo(a, j, cap) ==
  /\ Running(a)
  /\ Len(chan[a]) < cap
  /\ chan' = [chan EXCEPT ![a] = Append(@, j)]
  /\ UNCHANGED <<storeVars, worker_id, pc, it, jobs, todo, cur, stray, notifies, histVars>>

Notify(a, j) == NotifyUpTo(a, j, MaxNotifies)

\* ------------------------------------------------------------ specifications
\* the steps of the loop that stay in the loop
Loop(a) ==
  \/ TickStart(a)
  \/ ReapReady(a)
  \/ ReapTimedOut(a)
  \/ TermSleepAlive(a)
  \/ TermSleepDead(a)
  \/ KillSleepDone(a)
  \/ ReapSkip(a)
  \/ ReapEnd(a)
  \/ SelectTimeout(a)
  \/ \E d \in {0, SelectWait} : SelectEvent(a, d)
  \/ DrainOne(a)

\* the ways an exception ends the loop in the reap phase
ReapRaises(a) ==
  \/ ReapReadyNoResult(a)
  \/ \E at \in {"report", "commit"} : ReapReadyDbError(a, at)
  \/ \E at \in {"report", "commit"} : TimeoutDbError(a, at)

Dispatcher(a) == Loop(a) \/ ReapRaises(a)

\* children that end having sent their message, or are ended by the escalation
Orderly(a) ==
  \/ \E j \in JobIds, b \in Behaviours : ChildReturns(a, j, b)
  \/ \E code \in {"0", "-15", "-9"} : CurChildEnds(a, code)
  \/ \E j \in JobIds : StrayEnds(a, j)

Children(a) ==
  \/ Orderly(a)
  \/ \E j \in JobIds, sent \in BOOLEAN : ChildDies(a, j, sent)

\* one agent, "a1", and its store
Next ==
  \/ Dispatcher("a1")
  \/ Children("a1")
  \/ Start("a1")
  \/ Kill("a1")
  \/ \E j \in JobIds : Notify("a1", j)

Spec == Init /\ [][Next]_vars

\* the same agent when nothing stops it: it is never killed, every child that
\* exits has sent its message, and the loop always takes its next step (every
\* wait in it is bounded); notifications arrive at will
LiveNext ==
  \/ Loop("a1")
  \/ Orderly("a1")
  \/ Start("a1")
  \/ \E j \in JobIds : Notify("a1", j)

LiveSpec ==
  /\ Init
  /\ [][LiveNext]_vars
  /\ WF_vars(Loop("a1"))

\* a tick after its top, for an agent that no notification reaches: the reap
\* phase and the poll path
ReapAndPoll(a) ==
  \/ ReapReady(a)
  \/ ReapTimedOut(a)
  \/ TermSleepAlive(a)
  \/ TermSleepDead(a)
  \/ KillSleepDone(a)
  \/ ReapSkip(a)
  \/ ReapEnd(a)
  \/ SelectTimeout(a)

\* the loop of an agent that no notification reaches: every tick is idle
PollLoop(a) == TickStart(a) \/ ReapAndPoll(a)

\* two instances on one host, both with the default identity, on one store:
\* "a2" runs its poll loop; "a1" is started, gets as far as the sweep of its
\* first tick, and may be killed and started again
SharedNext ==
  \/ Start("a2")
  \/ PollLoop("a2")
  \/ Orderly("a2")
  \/ Start("a1")
  \/ TickStart("a1")
  \/ Kill("a1")

SharedSpec == SharedInit /\ [][SharedNext]_vars

\* two agents with distinct identities on one store.  An instance runs
\* LifeTicks ticks at most.  "a1" takes both paths: its notifications arrive
\* while it waits in select (conn.poll() reads the socket nowhere else).  "a2"
\* polls, and may be killed between two ticks and started again, which leaves
\* its claimed jobs to the sweep of its next instance.
DistinctNext ==
  \/ \E a \in Agents : Start(a)
  \/ \E a \in Agents : it[a] < LifeTicks /\ TickStart(a)
  \/ \E a \in Agents : ReapAndPoll(a)
  \/ \E a \in Agents : Orderly(a)
  \/ \E d \in {0, SelectWait} : SelectEvent("a1", d)
  \/ DrainOne("a1")
  \/ \E j \in JobIds : pc["a1"] = "select" /\ Notify("a1", j)
  \/ pc["a2"] = "tick" /\ Kill("a2")

DistinctSpec == Init /\ [][DistinctNext]_vars

\* the agent of LiveSpec on a channel that delivers bursts: one notification
\* more than MaxNotifies can wait on the socket; they arrive while the agent
\* waits in select (conn.poll() reads the socket nowhere else)
BurstNext ==
  \/ Loop("a1")
  \/ Orderly("a1")
  \/ Start("a1")
  \/ \E j \in JobIds : pc["a1"] = "select" /\ NotifyUpTo("a1", j, MaxNotifies + 1)

BurstSpec == Init /\ [][BurstNext]_vars

\* the wait in select takes its time: the poll path, or an event that comes
\* at the end of the wait
TimePasses(a) == SelectTimeout(a) \/ SelectEvent(a, SelectWait)

\* LiveSpec in which, of the infinitely many ticks, infinitely many take time
\* (elapsed is wall-clock time; no tick is instantaneous)
ReapLiveSpec == LiveSpec /\ SF_vars(TimePasses("a1"))

\* ------------------------------------------------------------ the claims
InTick(a) == pc[a] \in {"reap", "term_sleep", "kill_sleep", "select", "drain"}

Escalating(a) == pc[a] \in {"term_sleep", "kill_sleep"}

\* the child processes of agent a that are alive for job id j: those of
\* registered handles, the one being terminated, and those left behind
AliveChildren(a, j) ==
  Cardinality({i \in 1..Len(jobs[a]) : jobs[a][i].id = j /\ is_alive(jobs[a][i])})
  + (IF Escalating(a) /\ cur[a].id = j /\ is_alive(cur[a]) THEN 1 ELSE 0)
  + (IF j \in stray[a] THEN 1 ELSE 0)

\* C1: in every reachable state the registry of an agent holds at most
\* `processes` handles, whichever claim path added them.
CapacityInvariant == \A a \in Agents : Len(jobs[a]) <= procsOf(a)

\* C1 witness: a bulk claim was cut to the free capacity and filled the
\* registry while another job of a configured queue stayed claimable.
CapacityWitness ==
  /\ lastPoll["a1"].requested
  /\ lastPoll["a1"].got = lastPoll["a1"].n
  /\ Len(jobs["a1"]) = procs
  /\ \E j \in JobIds : claimable(j) /\ queueOf(j) \in queues

\* C2: every id removed from the registry is removed once and has exactly one
\* outcome report (finish_job or fail_job) sent for it: outside the
\* termination sleeps of its own timeout path, and unless the process was
\* killed from outside, a removed id has its one report.
EachRemovalReportedOnce ==
  \A a \in Agents : \A j \in JobIds :
    /\ removed[a][j] <= 1
    /\ reports[a][j] <= 1
    /\ j \in KeySet(jobs[a]) => removed[a][j] = 0 /\ reports[a][j] = 0
    /\ (removed[a][j] = 1 /\ pc[a] # "killed" /\ ~(Escalating(a) /\ cur[a].id = j))
         => reports[a][j] = 1

\* C3: within one agent no two child processes are alive for the same job id.
AtMostOneChildPerJob ==
  \A a \in Agents : \A j \in JobIds : AliveChildren(a, j) <= 1

\* C5 as claimed: every report for a handle that was past its deadline when
\* the reap phase examined it is a fail_job with the description "timed out".
PastDeadlineAlwaysTimedOut ==
  \A a \in Agents :
    (lastReport[a].id # 0 /\ lastReport[a].wasTimedOut)
      => lastReport[a].func = "fail_job" /\ lastReport[a].exc = "timed out"

\* C5 as amended: a handle past its deadline and not ready when the reap phase
\* examines it is reported by fail_job with the description "timed out" and no
\* result; a handle that is ready is reported with its own message, past its
\* deadline or not.
PastDeadlineNotReadyTimedOut ==
  \A a \in Agents :
    LET r == lastReport[a]
    IN r.id # 0 =>
         /\ (r.wasTimedOut /\ ~r.wasReady)
              => r.func = "fail_job" /\ r.exc = "timed out" /\ r.result = None
         /\ r.wasReady => r.msg # <<>> /\ r.exc = Head(r.msg).exc
                          /\ r.result = Head(r.msg).result
         /\ r.wasReady \/ r.wasTimedOut

\* C5 witness: a timed-out handle whose child was still running was reported.
TimedOutReported ==
  /\ lastReport["a1"].id # 0
  /\ lastReport["a1"].wasTimedOut /\ ~lastReport["a1"].wasReady
  /\ lastReport["a1"].func = "fail_job"

\* C6: for a handle found ready, a message without error is reported by
\* finish_job with the result, no error and the child's own exit code; a
\* message with an error is reported by fail_job with that error and exit
\* code 1 (the dispatcher goes on to report: nothing is raised in it).
ReadyReportMatchesMessage ==
  \A a \in Agents :
    LET r == lastReport[a]
    IN (r.id # 0 /\ r.wasReady) =>
         /\ r.msg # <<>>
         /\ Head(r.msg).exc = None =>
              /\ r.func = "finish_job"
              /\ r.result = Head(r.msg).result
              /\ r.exc = None
              /\ r.exitcode = r.childExit
         /\ Head(r.msg).exc # None =>
              /\ r.func = "fail_job"
              /\ r.exc = Head(r.msg).exc
              /\ r.exitcode = "1"

\* C6 witness: a function raised in a child that then exited with code 0, and
\* the report is a fail_job with exit code 1.
RaisedReported ==
  /\ lastReport["a1"].wasReady
  /\ lastReport["a1"].func = "fail_job"
  /\ lastReport["a1"].childExit = "0"
  /\ lastReport["a1"].exitcode = "1"

\* C7: every child that has terminated (ready is true) has sent its one result
\* message, so that reading the result of a ready handle returns a message.
ReadyHasMessage ==
  \A a \in Agents : \A i \in 1..Len(jobs[a]) :
    ready(jobs[a][i]) => CanRecv(jobs[a][i]) /\ Len(jobs[a][i].pipe) <= 1

\* C8: an idle tick asks the bulk claim for exactly procs - |registry| jobs
\* when that is positive and issues no bulk claim otherwise; neither path
\* issues a claim while the registry is at the limit.
BulkRequestIsFreeCapacity ==
  \A a \in Agents :
    /\ lastPoll[a].idle =>
         /\ procsOf(a) - lastPoll[a].size > 0 =>
              lastPoll[a].requested /\ lastPoll[a].n = procsOf(a) - lastPoll[a].size
         /\ procsOf(a) - lastPoll[a].size <= 0 => ~lastPoll[a].requested
         /\ lastPoll[a].got <= lastPoll[a].n
    /\ lastPoll[a].requested => lastPoll[a].size < procsOf(a)
    /\ lastNotify[a].attempted => lastNotify[a].size < procsOf(a)

\* C8 witness: an idle tick with a full registry and a claimable job pending
\* issued no bulk claim.
FullRegistryNoRequest ==
  /\ lastPoll["a1"].idle
  /\ lastPoll["a1"].size = procs
  /\ ~lastPoll["a1"].requested
  /\ \E j \in JobIds : claimable(j) /\ queueOf(j) \in queues

\* C9: a notification leads to a targeted claim exactly when its queue is
\* configured, its id is not registered and the registry is below the limit at
\* that moment; a claim that returns nothing leaves the registry as it was and
\* the dispatcher in its loop.
TargetedClaimIffGuard ==
  \A a \in Agents :
    LET r == lastNotify[a]
    IN r.id # 0 =>
         /\ r.attempted <=> (queueOf(r.id) \in queues /\ ~r.inReg /\ r.size < procsOf(a))
         /\ queueOf(r.id) \notin queues => ~r.attempted
         /\ r.row => r.attempted
         /\ ~r.row => r.after = r.before
         /\ pc[a] # "raised"

\* C9 witness: a targeted claim was attempted and returned nothing.
TargetedClaimReturnedNothing ==
  /\ lastNotify["a1"].id # 0
  /\ lastNotify["a1"].attempted
  /\ ~lastNotify["a1"].row

\* C10: the sweep runs on the ticks 1, 11, 21, ... and on no other, before the
\* reap phase of its tick; once a new instance is past the top of its first
\* tick, every job that was claimed under its identity in a configured queue
\* when it started has been released by a sweep.
SweepCadenceAndRecovery ==
  \A a \in Agents :
    /\ InTick(a) => (swept[a] <=> it[a] % SweepEvery = 1)
    /\ ~swept[a] => released[a] = {}
    /\ (InTick(a) /\ it[a] >= 1) => unsubmitted[a] = {}
    /\ (Running(a) /\ it[a] >= SweepEvery) => unsubmitted[a] = {}

\* C10 witness: the first tick of a restarted instance released a job the
\* previous instance had left claimed.
OrphanReleased ==
  /\ pc["a1"] = "reap"
  /\ it["a1"] = 1
  /\ released["a1"] # {}

\* C4 as claimed: every claimable job of a configured queue is eventually
\* claimed once the agent has free capacity, whatever notifications arrive.
ClaimableEventuallyClaimed ==
  \A j \in JobIds :
    (claimable(j) /\ queueOf(j) \in queues /\ Running("a1") /\ Len(jobs["a1"]) < procs)
      ~> ~claimable(j)

\* C4 as amended: the same, for an agent that keeps running, provided the
\* notification wait times out with no event in infinitely many ticks (only
\* such a tick takes the poll path).
ClaimedWhenIdleTicksRecur ==
  ([]<><<SelectTimeout("a1")>>_vars) => ClaimableEventuallyClaimed

\* C4 witness: in a tick after the first, with no event on the channel, the
\* bulk claim picked up a pending job.
BulkClaimedPending ==
  /\ lastPoll["a1"].requested
  /\ lastPoll["a1"].got > 0
  /\ it["a1"] > 1

\* C11 as claimed: a sweep releases no job that is in the registry of a live
\* agent at that moment, whatever identities the agents run under.
SweepSparesRunning ==
  [][\A a \in Agents : TickStart(a) =>
       \A b \in Agents : released'[a] \cap KeySet(jobs[b]) = {}]_vars

\* C12: when a bulk claim returns an id that is in the registry, the agent
\* halts there: no handle was spawned for that id, and the instance takes no
\* further step.
DuplicateClaimHalts ==
  \A a \in Agents :
    lastPoll[a].known # {} =>
      /\ pc[a] = "raised"
      /\ lastPoll[a].spawned \cap lastPoll[a].known = {}
      /\ jobs[a] = <<>>

\* C12 witness: the bulk claim of "a2" returned a job of its own registry
\* (released meanwhile by the sweep of "a1") and the assert ended the process.
DuplicateClaimSeen ==
  /\ lastPoll["a2"].known # {}
  /\ lastPoll["a2"].size < procsOf("a2")
  /\ pc["a2"] = "raised"

\* the event sequences of a finished timed-out branch
TimedOutRuns ==
  { <<"pop", "terminate", "sleep3", "dead", "close", "fail_job", "commit">>,
    <<"pop", "terminate", "sleep3", "alive", "kill", "sleep1", "close",
      "fail_job", "commit">> }

\* C13: for a handle found timed out and not ready the order is removal,
\* terminate, (kill), fail_job, commit, all inside complete_jobs; no id seen
\* timed out is in the registry afterwards, and discovery starts only when no
\* handle is under termination.
TimedOutOrder ==
  \A a \in Agents :
    LET e == trail[a].events
    IN /\ pc[a] = "term_sleep" =>
            e = <<"pop", "terminate">> /\ cur[a].id \notin KeySet(jobs[a])
       /\ pc[a] = "kill_sleep" =>
            /\ e = <<"pop", "terminate", "sleep3", "alive", "kill">>
            /\ cur[a].id \notin KeySet(jobs[a])
       /\ (pc[a] = "reap" /\ Len(e) >= 2 /\ e[2] = "terminate") =>
            /\ e \in TimedOutRuns
            /\ lastReport[a].exc = "timed out"
            /\ lastReport[a].id = trail[a].id
            /\ trail[a].id \in trail[a].seen
       /\ trail[a].seen \cap KeySet(jobs[a]) = {}
       /\ pc[a] \in {"select", "drain"} => cur[a] = NoHandle /\ trail[a] = NoTrail

\* C13 witness: a timed-out handle went through terminate and kill, was
\* reported, and the reap phase has not returned yet.
TimedOutOrderSeen ==
  /\ pc["a1"] = "reap"
  /\ "kill" \in Range(trail["a1"].events)
  /\ "commit" \in Range(trail["a1"].events)
  /\ trail["a1"].seen # {}

\* C14: terminate comes first; kill is issued exactly when the child is alive
\* after the 3-unit sleep, and then the 1-unit sleep follows; when the child
\* is dead there is no kill and no second sleep.
KillIffAliveAfterGrace ==
  \A a \in Agents :
    LET e == trail[a].events
        E == Range(e)
    IN /\ "sleep3" \in E => Len(e) >= 4 /\ e[2] = "terminate" /\ e[3] = "sleep3"
                            /\ e[4] \in {"alive", "dead"}
       /\ "kill" \in E <=> "alive" \in E
       /\ "kill" \in E => e[5] = "kill"
       /\ "sleep1" \in E => e[5] = "kill" /\ e[6] = "sleep1"
       /\ "dead" \in E => "kill" \notin E /\ "sleep1" \notin E
       /\ ("alive" \in E /\ "close" \in E) => "sleep1" \in E
       /\ "close" \in E =>
            /\ trail[a].slept >= TermGrace
            /\ "alive" \in E => trail[a].slept >= TermGrace + KillGrace

\* C14 witness: the child ended within the grace window and was reported
\* without a kill.
DeadAfterGraceNoKill ==
  /\ "dead" \in Range(trail["a1"].events)
  /\ "commit" \in Range(trail["a1"].events)
  /\ trail["a1"].slept = TermGrace

\* C15: a tick takes the poll path or the notify path, never both: a bulk
\* claim is decided only in a tick with no event, a tick that processed a
\* notification decides none, and a tick ends with conn.notifies empty.
PathsExclusive ==
  \A a \in Agents :
    /\ ~(lastPoll[a].idle /\ lastNotify[a].id # 0)
    /\ lastPoll[a].requested => lastPoll[a].idle
    /\ pc[a] = "tick" => notifies[a] = <<>>
    /\ pc[a] = "drain" => notifies[a] # <<>> /\ ~lastPoll[a].idle

\* C15 witness: a tick drained a burst of notifications, the last of which
\* led to no claim attempt, and ended without a bulk claim although a job was
\* claimable and a slot free.
EventTickNoBulk ==
  /\ pc["a1"] = "tick"
  /\ lastNotify["a1"].nth > MaxNotifies
  /\ ~lastNotify["a1"].attempted
  /\ ~lastPoll["a1"].idle
  /\ Len(jobs["a1"]) < procsOf("a1")
  /\ \E j \in JobIds : claimable(j) /\ queueOf(j) \in queues

\* C16 as claimed: the loop waits in select only, so that the time between two
\* reap phases is at most that wait.
TickDelayBounded ==
  \A a \in Agents :
    /\ pc[a] \notin {"term_sleep", "kill_sleep"}
    /\ trail[a].slept + SelectWait <= SelectWait

\* C17: a report is followed at once by its commit, and a report or commit
\* that raises ends the process: the instance holds no registry and takes no
\* further step.
ReportCommittedOrSurfaced ==
  \A a \in Agents :
    LET e == trail[a].events
    IN /\ \A i \in 1..Len(e) :
            e[i] \in {"finish_job", "fail_job"} =>
              i < Len(e) /\ e[i + 1] \in {"commit", "raise"}
       /\ "raise" \in Range(e) =>
            /\ e[Len(e)] = "raise"
            /\ pc[a] = "raised"
            /\ jobs[a] = <<>> /\ todo[a] = <<>> /\ cur[a] = NoHandle
            /\ reports[a][trail[a].id] = 0
            /\ status[trail[a].id] = "claimed"

\* C17 witness: the commit after a report raised and the process ended.
CommitFailureStopped ==
  /\ Len(trail["a1"].events) >= 3
  /\ SubSeq(trail["a1"].events, Len(trail["a1"].events) - 1, Len(trail["a1"].events))
       = <<"commit", "raise">>
  /\ pc["a1"] = "raised"

\* C18: every handle in the registry is eventually out of it with its
\* outcome reported.
EveryHandleReaped ==
  \A j \in JobIds :
    (j \in KeySet(jobs["a1"]))
      ~> (j \notin KeySet(jobs["a1"]) /\ reports["a1"][j] = 1)

\* C18 witness: a handle whose child never exited was reported by the
\* timeout path.
NeverExitedReaped ==
  /\ lastReport["a1"].id # 0
  /\ lastReport["a1"].exc = "timed out"
  /\ lastReport["a1"].childExit = None
  /\ lastReport["a1"].id \notin KeySet(jobs["a1"])

\* the jobs the store holds claimed under the identity of agent a
ClaimedBy(a) == {j \in JobIds : status[j] = "claimed" /\ owner[j] = worker_id[a]}

\* C19: at the top of every tick the registry keys are the jobs the store
\* holds claimed by this instance (those claimed under its identity, less the
\* ones a previous instance left); the sweep releases none of them and leaves
\* the registry as it is.
RegistryMatchesStore ==
  /\ [](\A a \in Agents : pc[a] = "tick" =>
          KeySet(jobs[a]) = ClaimedBy(a) \ unsubmitted[a])
  /\ [][\A a \in Agents : TickStart(a) =>
          /\ jobs'[a] = jobs[a]
          /\ released'[a] \cap KeySet(jobs[a]) = {}]_vars

\* C19 witness: the sweep of tick 11 ran with a job in the registry and
\* released nothing.
SweepWithRegistry ==
  /\ pc["a1"] = "reap"
  /\ it["a1"] = SweepEvery + 1
  /\ swept["a1"]
  /\ jobs["a1"] # <<>>
  /\ released["a1"] = {}

\* C20: with distinct identities no job id is in two registries at once, and
\* a registered job is claimed in the store by the agent that registers it.
NoJobInTwoRegistries ==
  /\ \A j \in JobIds : ~(j \in KeySet(jobs["a1"]) /\ j \in KeySet(jobs["a2"]))
  /\ \A a \in Agents : \A j \in KeySet(jobs[a]) :
       status[j] = "claimed" /\ owner[j] = worker_id[a]

\* C20 witness: both agents run a job at once, one of them a job that was
\* failed and rescheduled before.
BothAgentsBusy ==
  /\ jobs["a1"] # <<>>
  /\ jobs["a2"] # <<>>
  /\ \E j \in KeySet(jobs["a2"]) : tries[j] < JobTries
====
